---- MODULE Spec2Model ----
(***************************************************************************)
(* State-machine model of the streaming frame reader of han/dlms_tinetz.py *)
(* (DlmsTinetzFrameReader, _ReaderBuffer, DlmsTinetzFrame) together with   *)
(* the construct parsers it drives.  Bytes are integers 0..255, buffers    *)
(* are sequences of bytes, and the optional pending message self._frame is *)
(* a sequence of length 0 (None) or 1.  Two smaller machines stand next   *)
(* to it: the notification-body parser of han/kaifa_tinetz.py and the      *)
(* frame-consuming task of reader_async.py.                                *)
(***************************************************************************)
EXTENDS Integers, Sequences, FiniteSets, TLC

VARIABLES
    wire,             \* bytes the transport has not delivered yet (input)
    buffer,           \* DlmsTinetzFrameReader._buffer._buffer
    frame,            \* DlmsTinetzFrameReader._frame: <<>> is None
    frames_received,  \* the local list of the read call in progress
    pc,               \* "idle": between read calls; "loop": at the while test
    error,            \* exception that left read, "none" if there is none
    fed,              \* history: every byte handed to read so far
    emitted,          \* history: concatenation of the lists read returned
    last,             \* history: what the latest step of read did
    prev,             \* history: reader state before the latest loop step
    segments,         \* history: the frames consumed since Hunting was left
    iterations,       \* history: loop iterations of the latest read call
    entry_size,       \* history: buffer size when that call reached the loop
    apdu,             \* kaifa_tinetz: the notification body handed to the parser
    decoded,          \* kaifa_tinetz: what the parser made of it
    queue,            \* reader_async: the asyncio.Queue of frames
    task_pc,          \* reader_async: where the _process_frames task stands
    current,          \* reader_async: the frame it took, <<>> if none
    handled,          \* history: frames _measure_received was called with
    log,              \* history: what LOG.error was called with
    supplied          \* history: frames put into the queue

decoderVars == <<apdu, decoded>>

consumerVars == <<queue, task_pc, current, handled, log, supplied>>

vars == <<wire, buffer, frame, frames_received, pc, error, fed, emitted, last, prev,
          segments, iterations, entry_size, decoderVars, consumerVars>>

---------------------------------------------------------------------------
(* Wire constants of the parsers.                                          *)

START_CHARACTER == 104
STOP_CHARACTER == 22
A_FIELD == 255
STSAP == 1
DTSAP == 103
CIPHERING_SERVICE == 219
SYSTEM_TITLE_LENGTH == 8
LENGTH_PREFIX == 130
SECURITY_CONTROL_BYTE == 33
HEADER_SIZE == 6
FRAME_OVERHEAD == 6
TRANSPORT_OVERHEAD == 5
CIPHER_OVERHEAD == 5
LAST_SEGMENT_BIT == 16
C_FIELD_SND == 83
C_FIELD_SND_FCB == 115
CI_FIELD_END == 31

C_FIELDS == {C_FIELD_SND, C_FIELD_SND_FCB}
CI_FIELDS == 0..(CI_FIELD_END - 1)

None == <<>>

---------------------------------------------------------------------------
(* Sequence helpers: Python slices s[:n] and s[n:], and sum().             *)

Take(s, n) == SubSeq(s, 1, n)
Drop(s, n) == SubSeq(s, n + 1, Len(s))

RECURSIVE SumSeq(_)
SumSeq(s) == IF s = <<>> THEN 0 ELSE s[1] + SumSeq(Tail(s))

---------------------------------------------------------------------------
(* construct's exception classes.  Every parse error is a ConstructError;  *)
(* ChecksumError is the one the inner handler names.                       *)

ConstructErrors ==
    {"ConstError", "CheckError", "ValidationError", "StreamError", "ChecksumError"}

(* Variant: an outer clause that names ConstError alone.                   *)
IsConstructError_ConstOnly(exc) == exc = "ConstError"

IsConstructError(exc) == exc \in ConstructErrors

IsChecksumError(exc) == exc = "ChecksumError"

---------------------------------------------------------------------------
(* MBusDataLinkHeader.parse: the first exception the six header fields     *)
(* raise, in field order, or "none".  Called with Len(b) >= 6.             *)

HeaderExc(b) ==
    IF Len(b) < HEADER_SIZE THEN "StreamError"
    ELSE IF b[1] # START_CHARACTER THEN "ConstError"
    ELSE IF b[3] # b[2] THEN "CheckError"
    ELSE IF b[4] # START_CHARACTER THEN "ConstError"
    ELSE IF b[5] \notin C_FIELDS THEN "ValidationError"
    ELSE IF b[6] # A_FIELD THEN "ConstError"
    ELSE "none"

L_Field(b) == b[2]
C_Field(b) == b[5]
CI_Field(b) == b[7]

(* Data: Bytes(L_Field - 5), the bytes after the transport sub-header.     *)
Data(b) == SubSeq(b, 10, L_Field(b) + 4)

(* Variant: a checksum that leaves the CI field out of the sum.            *)
ChecksumOf_NoCI(b) ==
    (SumSeq(Data(b)) + C_Field(b) + b[6] + b[8] + b[9]) % 256

(* The value construct.Checksum compares the checksum byte with.           *)
ChecksumOf(b) ==
    (SumSeq(Data(b)) + C_Field(b) + b[6] + CI_Field(b) + b[8] + b[9]) % 256

(* MBusDataLinkLayer.parse: header, transport sub-header, data, checksum,  *)
(* stop character, in that order; the first exception raised, or "none".   *)
LinkLayerExc(b) ==
    LET l == L_Field(b) IN
    IF HeaderExc(b) # "none" THEN HeaderExc(b)
    ELSE IF Len(b) < 7 THEN "StreamError"
    ELSE IF b[7] \notin CI_FIELDS THEN "ValidationError"
    ELSE IF Len(b) < 8 THEN "StreamError"
    ELSE IF b[8] # STSAP THEN "ConstError"
    ELSE IF Len(b) < 9 THEN "StreamError"
    ELSE IF b[9] # DTSAP THEN "ConstError"
    ELSE IF l - TRANSPORT_OVERHEAD < 0 THEN "StreamError"
    ELSE IF Len(b) < l + 5 THEN "StreamError"
    ELSE IF b[l + 5] # ChecksumOf(b) THEN "ChecksumError"
    ELSE IF Len(b) < l + 6 THEN "StreamError"
    ELSE IF b[l + 6] # STOP_CHARACTER THEN "ConstError"
    ELSE "none"

---------------------------------------------------------------------------
(* DLMSApplicationLayer.parse on the payload d of a first segment.         *)

HasLengthPrefix(d) == d[11] = LENGTH_PREFIX

(* Index of the last byte of the Length field.                             *)
LengthEnd(d) == IF HasLengthPrefix(d) THEN 13 ELSE 11

AppExc(d) ==
    IF Len(d) < 1 THEN "StreamError"
    ELSE IF d[1] # CIPHERING_SERVICE THEN "ConstError"
    ELSE IF Len(d) < 2 THEN "StreamError"
    ELSE IF d[2] # SYSTEM_TITLE_LENGTH THEN "ConstError"
    ELSE IF Len(d) < 11 THEN "StreamError"
    ELSE IF Len(d) < LengthEnd(d) + 1 THEN "StreamError"
    ELSE IF d[LengthEnd(d) + 1] # SECURITY_CONTROL_BYTE THEN "ConstError"
    ELSE IF Len(d) < LengthEnd(d) + 5 THEN "StreamError"
    ELSE "none"

System_Title(d) == SubSeq(d, 3, 10)

(* Variant: the two length bytes read little-endian.                      *)
Length_LittleEndian(d) == IF HasLengthPrefix(d) THEN d[12] + d[13] * 256 ELSE d[11]

Length(d) == IF HasLengthPrefix(d) THEN d[12] * 256 + d[13] ELSE d[11]

Frame_Counter(d) == SubSeq(d, LengthEnd(d) + 2, LengthEnd(d) + 5)

(* Variant: the ciphertext taken from the frame counter on.                *)
Encrypted_Payload_FromCounter(d) == Drop(d, LengthEnd(d) + 1)

Encrypted_Payload(d) == Drop(d, LengthEnd(d) + 5)

---------------------------------------------------------------------------
(* DlmsTinetzFrame.                                                        *)

DlmsTinetzFrame(length, system_title, frame_counter) ==
    [length |-> length, system_title |-> system_title,
     frame_counter |-> frame_counter, frame_data |-> <<>>]

extend(f, data_chunk) == [f EXCEPT !.frame_data = @ \o data_chunk]

(* Variant: a validity test that accepts an over-long message.             *)
is_valid_AtLeast(f) == Len(f.frame_data) >= f.length

is_valid(f) == Len(f.frame_data) = f.length

---------------------------------------------------------------------------
(* _ReaderBuffer.                                                          *)

(* Variant: the search for the start character begins at the first byte.   *)
FindStart_FromZero(b) ==
    LET hits == {i \in 1..Len(b) : b[i] = START_CHARACTER}
    IN IF hits = {} THEN 0 ELSE CHOOSE i \in hits : \A j \in hits : i <= j

(* bytearray.find(START_CHARACTER, 1): 1-based index of the first start    *)
(* character that is not the first byte, 0 if there is none.               *)
FindStart(b) ==
    LET hits == {i \in 2..Len(b) : b[i] = START_CHARACTER}
    IN IF hits = {} THEN 0 ELSE CHOOSE i \in hits : \A j \in hits : i <= j

(* Variant: resynchronisation that drops the whole buffer.                 *)
trim_buffer_Clear(b) == <<>>

(* Variant: a buffer without a further start character is left as it is.  *)
trim_buffer_KeepOnMiss(b) ==
    IF FindStart(b) = 0 THEN b ELSE Drop(b, FindStart(b) - 1)

trim_buffer_to_start_character_or_end(b) ==
    IF FindStart(b) = 0 THEN <<>> ELSE Drop(b, FindStart(b) - 1)

(* Variant: the slice [:pos] in place of [pos:].                           *)
trim_buffer_KeepFront(b, pos) == Take(b, pos)

trim_buffer_to_pos(b, pos) == Drop(b, pos)

---------------------------------------------------------------------------
(* One iteration of the while loop of DlmsTinetzFrameReader.read on buffer *)
(* buf (Len(buf) >= 6) and pending message fr.  The result names what the  *)
(* iteration did (kind), the exception raised in it (exc), the buffer and  *)
(* pending message it leaves, and the messages it appended (out).          *)

Outcome(kind, exc, buf, fr, out) ==
    [kind |-> kind, exc |-> exc, buffer |-> buf, frame |-> fr, out |-> out]

(* except construct.ConstructError: drop the pending message, resync.  An  *)
(* exception the clause does not match leaves read.                        *)
OuterExcept(buf, fr, exc) ==
    IF IsConstructError(exc)
    THEN Outcome("resync", exc, trim_buffer_to_start_character_or_end(buf), None, <<>>)
    ELSE Outcome("raise", exc, buf, fr, <<>>)

(* Variant: no clause for ChecksumError, which then reaches the outer one. *)
InnerExcept_NoChecksumClause(buf, fr, exc, data_len) == OuterExcept(buf, fr, exc)

(* except construct.ChecksumError: drop the pending message, then the trim *)
(* after the inner try.  Any other exception goes to the outer handler.    *)
InnerExcept(buf, fr, exc, data_len) ==
    IF IsChecksumError(exc)
    THEN Outcome("checksum", exc, trim_buffer_to_pos(buf, data_len), None, <<>>)
    ELSE OuterExcept(buf, fr, exc)

IsFirstSegment(ci_field) == ci_field % 16 = 0
IsNextSegment(ci_field) == ci_field % 16 > 0
IsLastSegment(ci_field) == (ci_field \div LAST_SEGMENT_BIT) % 2 = 1

(* Variant: while Assembling every segment is appended, whatever its CI.   *)
Accumulate_AnySegment(fr, ci_field, data) ==
    IF fr = None /\ IsFirstSegment(ci_field)
    THEN <<extend(DlmsTinetzFrame(Length(data) - CIPHER_OVERHEAD,
                                  System_Title(data), Frame_Counter(data)),
                  Encrypted_Payload(data))>>
    ELSE IF fr # None
    THEN <<extend(fr[1], data)>>
    ELSE fr

(* The pending message after the two accumulation branches.                *)
Accumulate(fr, ci_field, data) ==
    IF fr = None /\ IsFirstSegment(ci_field)
    THEN <<extend(DlmsTinetzFrame(Length(data) - CIPHER_OVERHEAD,
                                  System_Title(data), Frame_Counter(data)),
                  Encrypted_Payload(data))>>
    ELSE IF fr # None /\ IsNextSegment(ci_field)
    THEN <<extend(fr[1], data)>>
    ELSE fr

(* Variant: the pending message is reset only when it is emitted.          *)
ParsedFrame_KeepInvalid(buf, fr, data_len) ==
    LET ci_field == CI_Field(buf)
        data == Data(buf)
    IN IF fr = None /\ IsFirstSegment(ci_field) /\ AppExc(data) # "none"
       THEN InnerExcept(buf, fr, AppExc(data), data_len)
       ELSE LET acc == Accumulate(fr, ci_field, data)
                closes == acc # None /\ IsLastSegment(ci_field) /\ is_valid(acc[1])
            IN Outcome("frame", "none", trim_buffer_to_pos(buf, data_len),
                       IF closes THEN None ELSE acc,
                       IF closes THEN acc ELSE <<>>)

(* The body of the inner try once MBusDataLinkLayer.parse has succeeded.   *)
ParsedFrame(buf, fr, data_len) ==
    LET ci_field == CI_Field(buf)
        data == Data(buf)
    IN IF fr = None /\ IsFirstSegment(ci_field) /\ AppExc(data) # "none"
       THEN InnerExcept(buf, fr, AppExc(data), data_len)
       ELSE LET acc == Accumulate(fr, ci_field, data)
                closes == acc # None /\ IsLastSegment(ci_field)
            IN Outcome("frame", "none", trim_buffer_to_pos(buf, data_len),
                       IF closes THEN None ELSE acc,
                       IF closes /\ is_valid(acc[1]) THEN acc ELSE <<>>)

(* Variant: the full frame is parsed without the test that it is buffered. *)
Iter_NoWait(buf, fr) ==
    LET data_len == L_Field(buf) + FRAME_OVERHEAD IN
    IF HeaderExc(buf) # "none" THEN OuterExcept(buf, fr, HeaderExc(buf))
    ELSE IF Len(buf) >= data_len
    THEN IF LinkLayerExc(buf) # "none"
         THEN InnerExcept(buf, fr, LinkLayerExc(buf), data_len)
         ELSE ParsedFrame(buf, fr, data_len)
    ELSE OuterExcept(buf, fr, "StreamError")

(* Variant: waiting for the rest of a frame forgets the pending message.   *)
Iter_BreakDropsFrame(buf, fr) ==
    LET data_len == L_Field(buf) + FRAME_OVERHEAD IN
    IF HeaderExc(buf) # "none" THEN OuterExcept(buf, fr, HeaderExc(buf))
    ELSE IF Len(buf) >= data_len
    THEN IF LinkLayerExc(buf) # "none"
         THEN InnerExcept(buf, fr, LinkLayerExc(buf), data_len)
         ELSE ParsedFrame(buf, fr, data_len)
    ELSE Outcome("break", "none", buf, None, <<>>)

Iter(buf, fr) ==
    LET data_len == L_Field(buf) + FRAME_OVERHEAD IN
    IF HeaderExc(buf) # "none" THEN OuterExcept(buf, fr, HeaderExc(buf))
    ELSE IF Len(buf) >= data_len
    THEN IF LinkLayerExc(buf) # "none"
         THEN InnerExcept(buf, fr, LinkLayerExc(buf), data_len)
         ELSE ParsedFrame(buf, fr, data_len)
    ELSE Outcome("break", "none", buf, fr, <<>>)

(* Variant: a while test that asks for one byte more.                      *)
LoopTest_Seven(buf) == Len(buf) >= HEADER_SIZE + 1

(* The while test.                                                         *)
LoopTest(buf) == Len(buf) >= HEADER_SIZE

(* A whole read call on a reader with buffer buf (the chunk already        *)
(* appended) and pending message fr: the loop run to its end.              *)
RECURSIVE RunLoop(_, _, _)
RunLoop(buf, fr, out) ==
    IF ~LoopTest(buf) THEN [buffer |-> buf, frame |-> fr, out |-> out, exc |-> "none"]
    ELSE LET r == Iter(buf, fr) IN
         IF r.kind = "break"
         THEN [buffer |-> buf, frame |-> fr, out |-> out, exc |-> "none"]
         ELSE IF r.kind = "raise"
         THEN [buffer |-> buf, frame |-> fr, out |-> <<>>, exc |-> r.exc]
         ELSE RunLoop(r.buffer, r.frame, out \o r.out)

(* A fresh reader given data_chunk in a single read call.                  *)
ReadFresh(data_chunk) == RunLoop(data_chunk, None, <<>>)

---------------------------------------------------------------------------
(* Input: the byte streams a meter and a noisy line can put on the wire.   *)
(* MkFrame lays a physical frame out as MBusDataLinkLayer reads it, and    *)
(* MkCiphering a first-segment payload as DLMSApplicationLayer reads it.   *)

MaxItems == 2
MaxChunk == 2
MaxSegments == 3

MkFrame(c_field, ci_field, data) ==
    LET l == Len(data) + TRANSPORT_OVERHEAD
        sum == (SumSeq(data) + c_field + A_FIELD + ci_field + STSAP + DTSAP) % 256
    IN <<START_CHARACTER, l, l, START_CHARACTER, c_field, A_FIELD,
         ci_field, STSAP, DTSAP>> \o data \o <<sum, STOP_CHARACTER>>

MkCiphering(system_title, length_field, frame_counter, ciphertext) ==
    <<CIPHERING_SERVICE, SYSTEM_TITLE_LENGTH>> \o system_title \o length_field
        \o <<SECURITY_CONTROL_BYTE>> \o frame_counter \o ciphertext

SetByte(s, i, v) == [s EXCEPT ![i] = v]

Title == <<1, 2, 3, 4, 5, 6, 7, 8>>
Counter == <<0, 0, 0, 9>>

(* A complete message in one segment: CI 0x10, declared length 2.          *)
SingleFrame == MkFrame(C_FIELD_SND, 16, MkCiphering(Title, <<7>>, Counter, <<161, 162>>))
(* First segment of a message of declared length 2, carrying 1 byte.       *)
FirstFrame == MkFrame(C_FIELD_SND, 0, MkCiphering(Title, <<7>>, Counter, <<177>>))
(* Continuation segments: CI 0x01 (more follow) and CI 0x11 (last).        *)
NextFrame == MkFrame(C_FIELD_SND_FCB, 1, <<178>>)
LastFrame == MkFrame(C_FIELD_SND, 17, <<179>>)
(* Damaged frames: wrong checksum, wrong stop character, both, a first     *)
(* segment without a ciphering header, a header whose L is below 5.        *)
BadChecksumFrame == SetByte(LastFrame, Len(LastFrame) - 1, (LastFrame[Len(LastFrame) - 1] + 1) % 256)
BadStopFrame == SetByte(LastFrame, Len(LastFrame), 0)
BadBothFrame == SetByte(BadChecksumFrame, Len(LastFrame), 0)
BadCipheringFrame == MkFrame(C_FIELD_SND, 0, <<CIPHERING_SERVICE, 7>>)
ShortHeader == <<START_CHARACTER, 0, 0, START_CHARACTER, C_FIELD_SND, A_FIELD>>
(* A complete message whose accumulated length exceeds the declared one.   *)
OverlongFrame == MkFrame(C_FIELD_SND, 16, MkCiphering(Title, <<6>>, Counter, <<193, 194>>))
(* First segment whose length field has the 0x82 prefix: length 0x0107.    *)
PrefixedFrame ==
    MkFrame(C_FIELD_SND, 0, MkCiphering(Title, <<LENGTH_PREFIX, 1, 7>>, Counter, <<200>>))
(* A second complete message, told from the first by counter and content.  *)
SecondFrame ==
    MkFrame(C_FIELD_SND_FCB, 16, MkCiphering(Title, <<7>>, <<0, 0, 0, 10>>, <<163, 164>>))
(* A complete message whose ciphertext reads as a data-link header and     *)
(* transport sub-header with L = 6.                                        *)
Decoy == <<START_CHARACTER, 6, 6, START_CHARACTER, C_FIELD_SND, A_FIELD, 0, STSAP, DTSAP>>
DecoyFrame == MkFrame(C_FIELD_SND, 16, MkCiphering(Title, <<14>>, Counter, Decoy))
(* Values a damaged byte takes, and line noise ahead of a frame.           *)
CorruptBytes == {0, STOP_CHARACTER, START_CHARACTER, C_FIELD_SND_FCB, A_FIELD}
GarbageBytes == {0, STOP_CHARACTER, C_FIELD_SND, START_CHARACTER, A_FIELD}
(* Every copy of frame f with exactly one byte replaced by another value.  *)
Corruptions(f) == {SetByte(f, i, v) : i \in 1..Len(f), v \in CorruptBytes} \ {f}
(* Line noise: a byte that is no start character, and a stray one.         *)
Garbage == <<0>>
StrayStart == <<START_CHARACTER>>

Menu ==
    {SingleFrame, FirstFrame, NextFrame, LastFrame, BadChecksumFrame, BadStopFrame,
     BadBothFrame, BadCipheringFrame, OverlongFrame, PrefixedFrame, ShortHeader,
     Garbage, StrayStart}

RECURSIVE StreamsOf(_)
StreamsOf(n) ==
    IF n = 0 THEN {<<>>}
    ELSE LET shorter == StreamsOf(n - 1)
         IN shorter \cup {s \o m : s \in shorter, m \in Menu}

Streams == StreamsOf(MaxItems) \ {<<>>}

(* The first segment of another message: its own counter and ciphertext.   *)
OtherFirstFrame ==
    MkFrame(C_FIELD_SND, 0, MkCiphering(Title, <<7>>, <<0, 0, 0, 10>>, <<180>>))

(* The segments of multi-frame messages, and what can come between them.   *)
SegmentMenu ==
    {FirstFrame, OtherFirstFrame, NextFrame, LastFrame, SingleFrame,
     BadChecksumFrame, Garbage}

RECURSIVE SegmentStreamsOf(_)
SegmentStreamsOf(n) ==
    IF n = 0 THEN {<<>>}
    ELSE LET shorter == SegmentStreamsOf(n - 1)
         IN shorter \cup {s \o m : s \in shorter, m \in SegmentMenu}

SegmentStreams == SegmentStreamsOf(MaxSegments) \ {<<>>}

(* What the loop has to get through: frames it consumes, frames it skips,  *)
(* and bytes it has to resynchronise over.                                 *)
LoopMenu == {SingleFrame, BadChecksumFrame, BadStopFrame, Garbage, StrayStart}

RECURSIVE LoopStreamsOf(_)
LoopStreamsOf(n) ==
    IF n = 0 THEN {<<>>}
    ELSE LET shorter == LoopStreamsOf(n - 1)
         IN shorter \cup {s \o m : s \in shorter, m \in LoopMenu}

LoopStreams == LoopStreamsOf(MaxItems) \ {<<>>}

(* The chunk sizes the transport delivers: a few bytes, or all there is.   *)
ChunkSizes(w) == {n \in 1..MaxChunk : n <= Len(w)} \cup {Len(w)}

---------------------------------------------------------------------------
(* han/kaifa_tinetz.py: the notification body.  What the parser is handed  *)
(* is the structure tag, the field count and the list items behind it; an  *)
(* item is named by the parser that accepts its bytes: SimpleElement,      *)
(* StructElement, or neither (unknown tag, truncated content).             *)

MaxFields == 4
MaxListItems == 3

SIMPLE_CNT == 2
STRUCT_CNT == 1

Tags == {"structure", "other"}
ItemShapes == {"simple", "struct", "other"}

NoElement == [ok |-> FALSE, shape |-> "other", cnt |-> 0]

SimpleElement(item) ==
    IF item = "simple" THEN [ok |-> TRUE, shape |-> item, cnt |-> SIMPLE_CNT]
    ELSE NoElement

StructElement(item) ==
    IF item = "struct" THEN [ok |-> TRUE, shape |-> item, cnt |-> STRUCT_CNT]
    ELSE NoElement

(* construct.Select: the first parser that succeeds.                       *)
Element(item) ==
    IF SimpleElement(item).ok THEN SimpleElement(item) ELSE StructElement(item)

(* construct.GreedyRange: elements up to the first that fails to parse.    *)
RECURSIVE GreedyRange(_)
GreedyRange(items) ==
    IF items = <<>> \/ ~Element(items[1]).ok THEN <<>>
    ELSE <<Element(items[1])>> \o GreedyRange(Tail(items))

RECURSIVE SumCnt(_)
SumCnt(list_items) ==
    IF list_items = <<>> THEN 0 ELSE list_items[1].cnt + SumCnt(Tail(list_items))

(* Variant: the field count compared with the number of items.             *)
LengthCheck_CountItems(fields, list_items) == fields = Len(list_items)

(* _length_check.                                                          *)
LengthCheck(fields, list_items) == fields = SumCnt(list_items)

NotParsed == [exc |-> "pending", fields |-> 0, list_items |-> <<>>]

NotificationBodyObisElements(a) ==
    IF a.tag # "structure"
    THEN [exc |-> "ConstError", fields |-> 0, list_items |-> <<>>]
    ELSE IF LengthCheck(a.fields, GreedyRange(a.items))
         THEN [exc |-> "none", fields |-> a.fields, list_items |-> GreedyRange(a.items)]
         ELSE [exc |-> "CheckError", fields |-> 0, list_items |-> <<>>]

RECURSIVE ItemLists(_)
ItemLists(n) ==
    IF n = 0 THEN {<<>>}
    ELSE LET shorter == ItemLists(n - 1)
         IN shorter \cup {Append(l, i) : l \in shorter, i \in ItemShapes}

Apdus == [tag : Tags, fields : 0..MaxFields, items : ItemLists(MaxListItems)]

NoApdu == [tag |-> "none", fields |-> 0, items |-> <<>>]

IdleDecoder ==
    /\ apdu = NoApdu
    /\ decoded = NotParsed

---------------------------------------------------------------------------
(* reader_async.py: the task that takes frames from the queue.  A frame is *)
(* named by what the decoder does with it: returns a mapping, returns      *)
(* nothing, or raises.                                                     *)

MaxFrames == 3

FrameKinds == {"decoded", "undecoded", "raises"}

(* The exceptions of _measure_received; all derive from Exception.         *)
Exceptions == {"DecodeError", "UnboundLocalError"}

(* _measure_received: the exception that leaves it and what it logs as an  *)
(* error.  _influxdb_client is assigned in the function and not declared   *)
(* global, so it is a local name and the test on it, reached with every    *)
(* decoded frame, raises UnboundLocalError.                                *)
measure_received(f) ==
    CASE f = "raises" -> [exc |-> "DecodeError", log |-> <<>>]
      [] f = "decoded" -> [exc |-> "UnboundLocalError", log |-> <<>>]
      [] OTHER -> [exc |-> "none", log |-> <<"Could not decode frame content">>]

(* Variant: an except clause for the decoder's exception only.             *)
ProcessCatches_DecodeOnly(exc) == exc = "DecodeError"

(* except Exception.                                                       *)
ProcessCatches(exc) == exc \in Exceptions

IdleConsumer ==
    /\ queue = <<>>
    /\ task_pc = "get"
    /\ current = <<>>
    /\ handled = <<>>
    /\ log = <<>>
    /\ supplied = <<>>

---------------------------------------------------------------------------
(* The reader as a state machine.                                          *)

(* The reader as a step finds it: buffer, pending message, and how many    *)
(* messages the read call in progress has collected.                       *)
Reader(b, f, n) == [buffer |-> b, frame |-> f, received |-> n]

(* DlmsTinetzFrameReader.__init__, before the first read call.             *)
InitReader ==
    /\ buffer = <<>>
    /\ frame = None
    /\ frames_received = <<>>
    /\ pc = "idle"
    /\ error = "none"
    /\ fed = <<>>
    /\ emitted = <<>>
    /\ last = "init"
    /\ prev = Reader(<<>>, None, 0)
    /\ segments = <<>>
    /\ iterations = 0
    /\ entry_size = 0

Init ==
    /\ wire \in Streams
    /\ InitReader
    /\ IdleDecoder
    /\ IdleConsumer

(* [garbage byte][0x68][valid frame], then whatever the line carries next. *)
InitResync ==
    /\ wire \in {<<g, START_CHARACTER>> \o f \o rest :
                    g \in GarbageBytes, f \in {SingleFrame}, rest \in Menu \cup {<<>>}}
    /\ InitReader
    /\ IdleDecoder
    /\ IdleConsumer

(* A valid frame with one byte replaced, then a valid frame.               *)
InitCorrupt ==
    /\ wire \in {c \o SecondFrame : c \in Corruptions(SingleFrame) \cup Corruptions(DecoyFrame)}
    /\ InitReader
    /\ IdleDecoder
    /\ IdleConsumer

(* Up to MaxSegments segments, whole or damaged, one behind the other.      *)
InitSegments ==
    /\ wire \in SegmentStreams
    /\ InitReader
    /\ IdleDecoder
    /\ IdleConsumer

InitLoop ==
    /\ wire \in LoopStreams
    /\ InitReader
    /\ IdleDecoder
    /\ IdleConsumer

(* read(data_chunk) up to the while test: the chunk is appended.           *)
Read(n) ==
    /\ pc = "idle"
    /\ wire # <<>>
    /\ n \in ChunkSizes(wire)
    /\ buffer' = buffer \o Take(wire, n)
    /\ wire' = Drop(wire, n)
    /\ fed' = fed \o Take(wire, n)
    /\ frames_received' = <<>>
    /\ pc' = "loop"
    /\ last' = "extend"
    /\ prev' = Reader(buffer, frame, Len(frames_received))
    /\ iterations' = 0
    /\ entry_size' = Len(buffer) + n
    /\ UNCHANGED <<frame, error, emitted, segments, decoderVars, consumerVars>>

(* The while test fails: read returns frames_received.                     *)
Exit ==
    /\ pc = "loop"
    /\ ~LoopTest(buffer)
    /\ pc' = "idle"
    /\ emitted' = emitted \o frames_received
    /\ last' = "exit"
    /\ prev' = Reader(buffer, frame, Len(frames_received))
    /\ UNCHANGED <<wire, buffer, frame, frames_received, error, fed>>
    /\ UNCHANGED <<segments, iterations, entry_size, decoderVars, consumerVars>>

(* The frame at the front is not fully buffered: break, and read returns.  *)
Break ==
    /\ pc = "loop"
    /\ LoopTest(buffer)
    /\ LET r == Iter(buffer, frame) IN
        /\ r.kind = "break"
        /\ buffer' = r.buffer
        /\ frame' = r.frame
        /\ frames_received' = frames_received \o r.out
        /\ emitted' = emitted \o frames_received \o r.out
    /\ pc' = "idle"
    /\ last' = "break"
    /\ prev' = Reader(buffer, frame, Len(frames_received))
    /\ iterations' = iterations + 1
    /\ UNCHANGED <<wire, error, fed, segments, entry_size, decoderVars, consumerVars>>

(* The frames a pending message was offered: the list starts anew with a   *)
(* frame consumed while Hunting and is dropped with the pending message.   *)
Consumed(r) ==
    IF r.kind = "frame"
    THEN (IF frame = None THEN <<>> ELSE segments)
            \o <<Take(buffer, Len(buffer) - Len(r.buffer))>>
    ELSE <<>>

(* Variant: a completed message is put at the head of the list.            *)
Continue_Prepend(r) ==
    /\ buffer' = r.buffer
    /\ frame' = r.frame
    /\ frames_received' = r.out \o frames_received
    /\ pc' = "loop"
    /\ last' = r.kind
    /\ prev' = Reader(buffer, frame, Len(frames_received))
    /\ segments' = Consumed(r)
    /\ iterations' = iterations + 1
    /\ UNCHANGED <<wire, error, fed, emitted, entry_size, decoderVars, consumerVars>>

(* The end of an iteration that stays in the loop.                         *)
Continue(r) ==
    /\ buffer' = r.buffer
    /\ frame' = r.frame
    /\ frames_received' = frames_received \o r.out
    /\ pc' = "loop"
    /\ last' = r.kind
    /\ prev' = Reader(buffer, frame, Len(frames_received))
    /\ segments' = Consumed(r)
    /\ iterations' = iterations + 1
    /\ UNCHANGED <<wire, error, fed, emitted, entry_size, decoderVars, consumerVars>>

(* An exception no except clause matches leaves read: nothing is returned. *)
Propagate(r) ==
    /\ error' = r.exc
    /\ pc' = "idle"
    /\ last' = r.kind
    /\ prev' = Reader(buffer, frame, Len(frames_received))
    /\ iterations' = iterations + 1
    /\ UNCHANGED <<wire, buffer, frame, frames_received, fed, emitted>>
    /\ UNCHANGED <<segments, entry_size, decoderVars, consumerVars>>

(* A physical frame parsed: accumulate, close on the last segment, trim.   *)
Frame ==
    /\ pc = "loop"
    /\ LoopTest(buffer)
    /\ Iter(buffer, frame).kind = "frame"
    /\ Continue(Iter(buffer, frame))

(* ChecksumError: handled by the inner except, then the trim to data_len.  *)
ChecksumFailed ==
    /\ pc = "loop"
    /\ LoopTest(buffer)
    /\ Iter(buffer, frame).kind = "checksum"
    /\ Continue(Iter(buffer, frame))

(* Any other exception: the outer except clause resynchronises on a        *)
(* ConstructError, and anything else propagates to the caller of read.     *)
ConstructFailed ==
    /\ pc = "loop"
    /\ LoopTest(buffer)
    /\ Iter(buffer, frame).kind \in {"resync", "raise"}
    /\ IF Iter(buffer, frame).kind = "resync"
       THEN Continue(Iter(buffer, frame))
       ELSE Propagate(Iter(buffer, frame))

Next ==
    \/ \E n \in 1..Len(wire) : Read(n)
    \/ Exit
    \/ Break
    \/ Frame
    \/ ChecksumFailed
    \/ ConstructFailed

Spec == Init /\ [][Next]_vars

SpecResync == InitResync /\ [][Next]_vars

SpecCorrupt == InitCorrupt /\ [][Next]_vars

SpecSegments == InitSegments /\ [][Next]_vars

(* NotificationBodyObisElements.parse on one notification body.            *)
InitDecoder ==
    /\ wire = <<>>
    /\ InitReader
    /\ IdleConsumer
    /\ apdu \in Apdus
    /\ decoded = NotParsed

Parse ==
    /\ decoded = NotParsed
    /\ apdu # NoApdu
    /\ decoded' = NotificationBodyObisElements(apdu)
    /\ UNCHANGED <<wire, buffer, frame, frames_received, pc, error, fed, emitted,
                   last, prev, segments, iterations, entry_size, apdu, consumerVars>>

NextDecoder == Parse

SpecDecoder == InitDecoder /\ [][NextDecoder]_vars

(* The transport puts a frame into the queue.                              *)
Put(f) ==
    /\ Len(supplied) < MaxFrames
    /\ queue' = Append(queue, f)
    /\ supplied' = Append(supplied, f)
    /\ UNCHANGED <<wire, buffer, frame, frames_received, pc, error, fed, emitted,
                   last, prev, segments, iterations, entry_size, decoderVars,
                   task_pc, current, handled, log>>

(* frame = await queue.get()                                               *)
Get ==
    /\ task_pc = "get"
    /\ queue # <<>>
    /\ current' = <<Head(queue)>>
    /\ queue' = Tail(queue)
    /\ task_pc' = "try"
    /\ UNCHANGED <<wire, buffer, frame, frames_received, pc, error, fed, emitted,
                   last, prev, segments, iterations, entry_size, decoderVars,
                   handled, log, supplied>>

(* The try statement: _measure_received(frame), and LOG.error(ex) for an    *)
(* exception the except clause matches; any other ends the task.           *)
Handle ==
    /\ task_pc = "try"
    /\ LET r == measure_received(current[1]) IN
        /\ handled' = Append(handled, current[1])
        /\ log' = log \o r.log
                      \o (IF r.exc # "none" /\ ProcessCatches(r.exc) THEN <<r.exc>> ELSE <<>>)
        /\ task_pc' = IF r.exc = "none" \/ ProcessCatches(r.exc) THEN "get" ELSE "dead"
    /\ current' = <<>>
    /\ UNCHANGED <<wire, buffer, frame, frames_received, pc, error, fed, emitted,
                   last, prev, segments, iterations, entry_size, decoderVars,
                   queue, supplied>>

InitConsumer ==
    /\ wire = <<>>
    /\ InitReader
    /\ IdleDecoder
    /\ IdleConsumer

NextConsumer ==
    \/ \E f \in FrameKinds : Put(f)
    \/ Get
    \/ Handle

(* The task runs whenever the event loop has something for it.             *)
SpecConsumer == InitConsumer /\ [][NextConsumer]_vars /\ WF_vars(Get) /\ WF_vars(Handle)

(* read runs to its return once it is called: the loop steps are taken     *)
(* without waiting for anything, the next call is up to the transport.     *)
LoopStep == Exit \/ Break \/ Frame \/ ChecksumFailed \/ ConstructFailed

FairSpec == InitLoop /\ [][Next]_vars /\ WF_vars(LoopStep)

---------------------------------------------------------------------------
(* Vocabulary of the properties below.                                     *)

(* The latest step was an iteration of the loop that did not break.        *)
Stepped == last \in {"frame", "checksum", "resync", "raise"}

(* The messages the latest iteration appended to frames_received.          *)
StepOut == Drop(frames_received, prev.received)

(* The messages the streams above carry.                                   *)
SingleMessage ==
    [length |-> 2, system_title |-> Title, frame_counter |-> Counter,
     frame_data |-> <<161, 162>>]
SecondMessage ==
    [length |-> 2, system_title |-> Title, frame_counter |-> <<0, 0, 0, 10>>,
     frame_data |-> <<163, 164>>]
DecoyMessage ==
    [length |-> 9, system_title |-> Title, frame_counter |-> Counter,
     frame_data |-> Decoy]

(* The candidate at the front of b is fully buffered and its envelope up   *)
(* to the payload is well formed.                                          *)
EnvelopeValid(b) ==
    /\ Len(b) >= HEADER_SIZE
    /\ b[1] = START_CHARACTER /\ b[2] = b[3] /\ b[4] = START_CHARACTER
    /\ b[5] \in {83, 115} /\ b[6] = 255
    /\ b[2] >= 5
    /\ Len(b) >= b[2] + 6
    /\ b[7] \in 0..30 /\ b[8] = 1 /\ b[9] = 103

(* The checksum byte of such a candidate matches the sum the layer states. *)
ChecksumMatches(b) ==
    b[b[2] + 5] = (SumSeq(SubSeq(b, 10, b[2] + 4)) + b[5] + b[6] + b[7] + 1 + 103) % 256

(* Such a candidate parses as a physical frame.                            *)
FrameValid(b) == EnvelopeValid(b) /\ ChecksumMatches(b) /\ b[b[2] + 6] = STOP_CHARACTER

(* The six header bytes, and a ciphering header, are well formed.         *)
HeaderValid(b) ==
    /\ b[1] = START_CHARACTER /\ b[2] = b[3] /\ b[4] = START_CHARACTER
    /\ b[5] \in {83, 115} /\ b[6] = 255

CipheringValid(d) ==
    /\ Len(d) >= 11 /\ d[1] = 219 /\ d[2] = 8
    /\ LET e == IF d[11] = 130 THEN 13 ELSE 11
       IN Len(d) >= e + 5 /\ d[e + 1] = 33

(* The pending message once the frame at the front of b has been           *)
(* accumulated: its declared and its accumulated length.                   *)
PendingDeclared(b, f) ==
    IF f # None THEN f[1].length
    ELSE LET d == SubSeq(b, 10, b[2] + 4)
         IN (IF d[11] = 130 THEN d[12] * 256 + d[13] ELSE d[11]) - 5

PendingAccumulated(b, f) ==
    LET d == SubSeq(b, 10, b[2] + 4) IN
    IF f # None THEN Len(f[1].frame_data) + (IF b[7] % 16 > 0 THEN Len(d) ELSE 0)
    ELSE Len(d) - ((IF d[11] = 130 THEN 13 ELSE 11) + 5)

(* A pending message is open once the frame at the front of b is taken in. *)
PendingOpen(b, f) ==
    \/ f # None
    \/ b[7] % 16 = 0 /\ CipheringValid(SubSeq(b, 10, b[2] + 4))

(* C1: chunk-boundary independence.  Whenever read has returned, the       *)
(* concatenation of the lists returned so far, over the chunks fed so far, *)
(* equals the list a fresh reader returns for the same bytes in one call.  *)
C1_ChunkIndependence ==
    (pc = "idle" /\ error = "none") => emitted = ReadFresh(fed).out

(* C1 witness: a stream fully fed in several read calls, two messages      *)
(* returned, the second by a later call than the first.                    *)
C1_Witness ==
    /\ pc = "idle" /\ wire = <<>>
    /\ Len(emitted) = 2 /\ Len(frames_received) = 1
    /\ emitted = ReadFresh(fed).out

(* C2: a valid frame with exactly one byte replaced, followed at once by a *)
(* valid frame: the damaged frame is never emitted, and once the stream is *)
(* fed the second frame has been emitted.                                  *)
C2_CorruptThenValid ==
    /\ \A i \in 1..Len(emitted) : emitted[i] \notin {SingleMessage, DecoyMessage}
    /\ \A i \in 1..Len(frames_received) :
           frames_received[i] \notin {SingleMessage, DecoyMessage}
    /\ (pc = "idle" /\ wire = <<>>) => emitted = <<SecondMessage>>

(* C3: every message read returns has accumulated exactly its declared     *)
(* length, and a frame with the last-segment bit that finds the pending    *)
(* message at any other length returns nothing.                            *)
C3_DeclaredLength ==
    /\ \A i \in 1..Len(emitted) : Len(emitted[i].frame_data) = emitted[i].length
    /\ \A i \in 1..Len(frames_received) :
           Len(frames_received[i].frame_data) = frames_received[i].length
    /\ LET b == prev.buffer
           f == prev.frame
       IN (Stepped /\ FrameValid(b) /\ (b[7] \div 16) % 2 = 1 /\ PendingOpen(b, f)
             /\ PendingAccumulated(b, f) # PendingDeclared(b, f))
          => StepOut = <<>>

(* C3 witness: after a message was returned, a frame with the last-segment *)
(* bit closes a pending message that is one byte too long, and nothing is  *)
(* appended.                                                               *)
C3_Witness ==
    /\ emitted # <<>>
    /\ last = "frame" /\ FrameValid(prev.buffer)
    /\ (prev.buffer[7] \div 16) % 2 = 1
    /\ PendingOpen(prev.buffer, prev.frame)
    /\ PendingAccumulated(prev.buffer, prev.frame)
          = PendingDeclared(prev.buffer, prev.frame) + 1
    /\ StepOut = <<>> /\ frame = None

(* C4: resynchronisation.  Fed a garbage byte, 0x68 and a valid frame from *)
(* Hunting with an empty buffer, the reader emits the frame once it is     *)
(* fed, and until then has discarded no more than the two leading bytes.   *)
C4_Resync ==
    /\ (pc = "idle" /\ Len(fed) >= 2 + Len(SingleFrame))
          => (emitted # <<>> /\ emitted[1] = SingleMessage)
    /\ (emitted = <<>> /\ frames_received = <<>>) => Len(fed) - Len(buffer) <= 2
    /\ error = "none"

(* C4 witness: the frame has been emitted and the whole stream consumed.   *)
C4_Witness ==
    /\ pc = "idle" /\ wire = <<>> /\ buffer = <<>>
    /\ emitted = <<SingleMessage>>
    /\ Len(fed) = 2 + Len(SingleFrame)

(* C5: no exception leaves read: every parse error is handled inside it.   *)
C5_NoErrorEscapes == error = "none" /\ last # "raise"

(* C5 witness: read has handled a checksum-valid first segment whose       *)
(* ciphering header is malformed, and goes on with its loop.               *)
C5_Witness ==
    /\ Stepped /\ pc = "loop" /\ error = "none"
    /\ FrameValid(prev.buffer) /\ prev.frame = None /\ prev.buffer[7] % 16 = 0
    /\ prev.buffer[10] = CIPHERING_SERVICE /\ prev.buffer[11] # SYSTEM_TITLE_LENGTH

(* C6: a fully buffered frame with a well-formed envelope and a wrong      *)
(* checksum: the pending message is discarded, exactly the first L+6 bytes *)
(* leave the buffer, nothing is appended, and the loop goes on.            *)
C6_ChecksumFailure ==
    LET b == prev.buffer IN
    (Stepped /\ EnvelopeValid(b) /\ ~ChecksumMatches(b))
        => /\ frame = None
           /\ buffer = SubSeq(b, b[2] + 7, Len(b))
           /\ StepOut = <<>>
           /\ pc = "loop" /\ error = "none"

(* C6 witness: a checksum failure that discarded an open pending message.  *)
C6_Witness ==
    /\ Stepped /\ EnvelopeValid(prev.buffer) /\ ~ChecksumMatches(prev.buffer)
    /\ prev.frame # None /\ frame = None
    /\ Len(buffer) + prev.buffer[2] + 6 = Len(prev.buffer)

(* The candidate at the front of b, met with pending message f, fails      *)
(* structurally: the header is malformed, or the candidate is fully        *)
(* buffered and its transport sub-header or length is malformed, or its    *)
(* checksum matches and the stop marker or the ciphering header (parsed    *)
(* for a first segment met while Hunting) is malformed.                    *)
StructuralFailure(b, f) ==
    \/ ~HeaderValid(b)
    \/ /\ HeaderValid(b) /\ Len(b) >= b[2] + 6
       /\ \/ ~EnvelopeValid(b)
          \/ /\ EnvelopeValid(b) /\ ChecksumMatches(b)
             /\ \/ b[b[2] + 6] # STOP_CHARACTER
                \/ /\ b[b[2] + 6] = STOP_CHARACTER
                   /\ f = None /\ b[7] % 16 = 0
                   /\ ~CipheringValid(SubSeq(b, 10, b[2] + 4))

(* C7: on a structural failure the pending message is discarded and the    *)
(* buffer is cut to the first 0x68 at index >= 1, or emptied if there is   *)
(* none; the byte at index 0 always goes.                                  *)
C7_StructuralFailure ==
    LET b == prev.buffer IN
    (Stepped /\ StructuralFailure(b, prev.frame))
        => /\ frame = None
           /\ StepOut = <<>>
           /\ error = "none"
           /\ Len(buffer) < Len(b)
           /\ \/ /\ \A i \in 2..Len(b) : b[i] # START_CHARACTER
                 /\ buffer = <<>>
              \/ \E i \in 2..Len(b) :
                    /\ b[i] = START_CHARACTER
                    /\ \A j \in 2..(i - 1) : b[j] # START_CHARACTER
                    /\ buffer = SubSeq(b, i, Len(b))

(* C7 witness: a frame with a bad stop marker met while Assembling; the    *)
(* pending message is gone and the buffer now starts at the frame's second *)
(* start character.                                                        *)
C7_Witness ==
    /\ Stepped /\ StructuralFailure(prev.buffer, prev.frame)
    /\ EnvelopeValid(prev.buffer) /\ ChecksumMatches(prev.buffer)
    /\ prev.frame # None /\ frame = None
    /\ buffer = SubSeq(prev.buffer, 4, Len(prev.buffer))

(* C8: a well-formed data-link header with fewer than L+6 bytes buffered:  *)
(* read stops, and buffer, pending message and returned list are as the    *)
(* step found them.                                                        *)
C8_Incomplete ==
    LET b == prev.buffer IN
    ((Stepped \/ last = "break") /\ HeaderValid(b) /\ Len(b) < b[2] + 6)
        => /\ pc = "idle"
           /\ buffer = b
           /\ frame = prev.frame
           /\ StepOut = <<>>
           /\ error = "none"

(* C8 witness: read stopped on an incomplete frame with a pending message  *)
(* that already holds ciphertext.                                          *)
C8_Witness ==
    /\ last = "break" /\ pc = "idle"
    /\ HeaderValid(buffer) /\ Len(buffer) < buffer[2] + 6
    /\ frame # None /\ frame[1].frame_data # <<>>
    /\ frame = prev.frame /\ buffer = prev.buffer

(* C9: a checksum-valid frame with CI bit 0x10 processed with a pending    *)
(* message open (also one it opened itself): the message is emitted if and *)
(* only if accumulated and declared length agree, nothing is raised, and   *)
(* the reader is in Hunting afterwards.                                    *)
C9_LastSegment ==
    LET b == prev.buffer
        f == prev.frame
    IN (Stepped /\ FrameValid(b) /\ (b[7] \div 16) % 2 = 1 /\ PendingOpen(b, f))
        => /\ frame = None
           /\ error = "none"
           /\ Len(StepOut) <= 1
           /\ StepOut # <<>> <=> PendingAccumulated(b, f) = PendingDeclared(b, f)
           /\ StepOut # <<>> =>
                 /\ StepOut[1].length = PendingDeclared(b, f)
                 /\ Len(StepOut[1].frame_data) = PendingAccumulated(b, f)

(* C9 witness: a continuation segment with bit 0x10 completes a message    *)
(* opened by an earlier frame, and the message is emitted.                 *)
C9_Witness ==
    /\ Stepped /\ FrameValid(prev.buffer)
    /\ prev.buffer[7] = 17 /\ prev.frame # None
    /\ Len(StepOut) = 1 /\ frame = None
    /\ Len(StepOut[1].frame_data) = Len(prev.frame[1].frame_data) + 1

(* C10: a checksum-valid frame that fits neither pattern (low nibble > 0   *)
(* while Hunting, low nibble 0 while Assembling) leaves the buffer by its  *)
(* L+6 bytes and adds nothing: no pending message is created, and an open  *)
(* one keeps its declared length, system title, frame counter and          *)
(* ciphertext, whether it stays open or bit 0x10 of this frame closes it.  *)
C10_OtherCombination ==
    LET b == prev.buffer
        f == prev.frame
        last_segment == (b[7] \div 16) % 2 = 1
    IN (Stepped /\ FrameValid(b)
          /\ ((f = None /\ b[7] % 16 > 0) \/ (f # None /\ b[7] % 16 = 0)))
        => /\ buffer = SubSeq(b, b[2] + 7, Len(b))
           /\ f = None => (frame = None /\ StepOut = <<>>)
           /\ (f # None /\ ~last_segment) => (frame = f /\ StepOut = <<>>)
           /\ (f # None /\ last_segment) =>
                 /\ frame = None
                 /\ StepOut \in {<<>>, f}
                 /\ StepOut = f <=> Len(f[1].frame_data) = f[1].length

(* C10 witness: a first segment arrives while a message is being           *)
(* assembled; it is consumed and the pending message is as it was.         *)
C10_Witness ==
    /\ Stepped /\ FrameValid(prev.buffer)
    /\ prev.frame # None /\ prev.buffer[7] = 0
    /\ frame = prev.frame
    /\ Len(buffer) + prev.buffer[2] + 6 = Len(prev.buffer)

(* C11: accumulation rule.  A checksum-valid first segment (CI low nibble  *)
(* 0) met while Hunting opens a pending message whose ciphertext is the    *)
(* payload after the ciphering header; a checksum-valid segment with CI    *)
(* low nibble > 0 met while Assembling appends its whole payload, so the   *)
(* accumulated length grows by L-5.  The pending message is read where the *)
(* step left it: still open, or in the list if the step emitted it.        *)
C11_Accumulation ==
    LET b == prev.buffer
        f == prev.frame
        d == SubSeq(b, 10, b[2] + 4)
        e == IF d[11] = 130 THEN 13 ELSE 11
        pending == IF frame # None THEN frame ELSE StepOut
    IN (Stepped /\ FrameValid(b)) =>
        /\ (f = None /\ b[7] % 16 = 0 /\ CipheringValid(d) /\ pending # <<>>) =>
              /\ pending[1].frame_data = SubSeq(d, e + 6, Len(d))
              /\ pending[1].system_title = SubSeq(d, 3, 10)
              /\ pending[1].frame_counter = SubSeq(d, e + 2, e + 5)
        /\ (f = None /\ b[7] = 0 /\ CipheringValid(d)) => frame # None
        /\ (f # None /\ b[7] % 16 > 0 /\ pending # <<>>) =>
              /\ pending[1].frame_data = f[1].frame_data \o d
              /\ Len(pending[1].frame_data) = Len(f[1].frame_data) + b[2] - 5
              /\ pending[1].length = f[1].length
              /\ pending[1].system_title = f[1].system_title
              /\ pending[1].frame_counter = f[1].frame_counter
        /\ (f # None /\ b[7] % 16 > 0 /\ (b[7] \div 16) % 2 = 0) => frame # None

(* C11 witness: a continuation segment without the last-segment bit has    *)
(* been appended to a pending message that a first segment opened.         *)
C11_Witness ==
    /\ Stepped /\ FrameValid(prev.buffer)
    /\ prev.frame # None /\ prev.buffer[7] = 1
    /\ frame # None
    /\ prev.frame[1].frame_data = <<177>>
    /\ frame[1].frame_data = <<177, 178>>

(* C13: variable-length prefix.  In the ciphering header a byte 0x82 after *)
(* the system title is a prefix and the length is the next two bytes,      *)
(* big-endian; any other byte is the length itself; the declared length of *)
(* the pending message is that length minus 5.                             *)
C13_LengthPrefix ==
    LET b == prev.buffer
        d == SubSeq(b, 10, b[2] + 4)
    IN (Stepped /\ FrameValid(b) /\ prev.frame = None /\ b[7] = 0 /\ CipheringValid(d)) =>
        /\ frame # None
        /\ d[11] = 130 =>
              /\ frame[1].length = d[12] * 256 + d[13] - 5
              /\ frame[1].frame_counter = SubSeq(d, 15, 18)
              /\ frame[1].frame_data = SubSeq(d, 19, Len(d))
        /\ d[11] # 130 =>
              /\ frame[1].length = d[11] - 5
              /\ frame[1].frame_counter = SubSeq(d, 13, 16)
              /\ frame[1].frame_data = SubSeq(d, 17, Len(d))

(* C13 witness: a first segment with the 0x82 prefix and length 0x0107 has *)
(* opened a pending message of declared length 258.                        *)
C13_Witness ==
    /\ Stepped /\ FrameValid(prev.buffer) /\ prev.frame = None
    /\ Len(prev.buffer) >= 22
    /\ prev.buffer[20] = 130 /\ prev.buffer[21] = 1 /\ prev.buffer[22] = 7
    /\ frame # None /\ frame[1].length = 258 /\ frame[1].frame_data = <<200>>

(* C14: a fully buffered candidate with a well-formed envelope passes the  *)
(* checksum test exactly if its checksum byte is (payload sum + control +  *)
(* address + CI + 0x01 + 0x67) mod 256; otherwise the step is the checksum *)
(* failure (the frame is skipped whole), never the structural one.         *)
C14_Checksum ==
    LET b == prev.buffer
        l == b[2]
        sum == (SumSeq(SubSeq(b, 10, l + 4)) + b[5] + b[6] + b[7] + 1 + 103) % 256
    IN (Stepped /\ EnvelopeValid(b)) =>
        /\ b[l + 5] # sum <=> last = "checksum"
        /\ b[l + 5] = sum <=> last \in {"frame", "resync"}
        /\ (b[l + 5] = sum /\ b[l + 6] = STOP_CHARACTER
              /\ ~(prev.frame = None /\ b[7] % 16 = 0)) => last = "frame"

(* C14 witness: a frame whose checksum byte is off by one, stop marker in  *)
(* place, met while Hunting, was taken as a checksum failure.              *)
C14_Witness ==
    /\ last = "checksum" /\ EnvelopeValid(prev.buffer)
    /\ prev.frame = None
    /\ prev.buffer[prev.buffer[2] + 6] = STOP_CHARACTER
    /\ prev.buffer[prev.buffer[2] + 5]
          = (SumSeq(SubSeq(prev.buffer, 10, prev.buffer[2] + 4)) + 83 + 255
               + prev.buffer[7] + 1 + 103 + 1) % 256

(* C15: the buffer grows only by the bytes fed, at its end, and shrinks    *)
(* only at its front: it is always a suffix of all the bytes fed so far,   *)
(* and what a step removes it removes from the front.                      *)
C15_BufferSuffix ==
    /\ Len(buffer) <= Len(fed)
    /\ buffer = SubSeq(fed, Len(fed) - Len(buffer) + 1, Len(fed))
    /\ (Stepped \/ last = "break") =>
          /\ Len(buffer) <= Len(prev.buffer)
          /\ buffer = SubSeq(prev.buffer, Len(prev.buffer) - Len(buffer) + 1,
                             Len(prev.buffer))
    /\ last = "extend" =>
          /\ Len(buffer) > Len(prev.buffer)
          /\ prev.buffer = SubSeq(buffer, 1, Len(prev.buffer))
          /\ SubSeq(buffer, Len(prev.buffer) + 1, Len(buffer))
                = SubSeq(fed, Len(fed) - (Len(buffer) - Len(prev.buffer)) + 1, Len(fed))

(* C15 witness: a frame has been consumed and the bytes behind it are      *)
(* what the buffer holds.                                                  *)
C15_Witness ==
    /\ last = "frame" /\ buffer # <<>>
    /\ Len(buffer) < Len(prev.buffer)
    /\ buffer = SubSeq(fed, Len(fed) - Len(buffer) + 1, Len(fed))

(* C20: whenever read has returned, the buffer holds fewer than 6 bytes or *)
(* starts with a well-formed data-link header whose frame of L+6 bytes is  *)
(* not yet fully buffered.                                                 *)
C20_QuiescentBuffer ==
    (pc = "idle" /\ error = "none") =>
        \/ Len(buffer) < 6
        \/ /\ buffer[1] = START_CHARACTER /\ buffer[2] = buffer[3]
           /\ buffer[4] = START_CHARACTER /\ buffer[5] \in {83, 115}
           /\ buffer[6] = 255
           /\ buffer[2] + 6 > Len(buffer)

(* C20 witness: read has returned while Hunting with the front of a frame  *)
(* buffered, header complete, the bytes before it resynchronised away.     *)
C20_Witness ==
    /\ pc = "idle" /\ last = "break" /\ error = "none"
    /\ Len(buffer) >= 6 /\ HeaderValid(buffer) /\ buffer[2] + 6 > Len(buffer)
    /\ frame = None /\ Len(buffer) < Len(fed)

(* C12: emission order is completion order.  A read call starts with an   *)
(* empty list; a loop step leaves the list as it is or appends one message *)
(* at its end, and appends only while consuming, at the front of the       *)
(* buffer, a checksum-valid frame with CI bit 0x10, which it removes; the  *)
(* return of that same call hands the list over, once, and nothing is      *)
(* handed over at any other time.                                          *)
C12_Step ==
    /\ (pc = "idle" /\ pc' = "loop") =>
          /\ frames_received' = <<>>
          /\ emitted' = emitted
    /\ pc = "loop" =>
          /\ Len(frames_received') \in {Len(frames_received), Len(frames_received) + 1}
          /\ SubSeq(frames_received', 1, Len(frames_received)) = frames_received
          /\ Len(frames_received') > Len(frames_received) =>
                /\ FrameValid(buffer)
                /\ (buffer[7] \div 16) % 2 = 1
                /\ buffer' = Drop(buffer, buffer[2] + 6)
                /\ frame' = None
          /\ pc' = "loop" => emitted' = emitted
          /\ (pc' = "idle" /\ error' = "none") => emitted' = emitted \o frames_received'
          /\ (pc' = "idle" /\ error' # "none") => emitted' = emitted

(* C12, as a property of every step of every behaviour.                    *)
C12_EmissionOrder == [][C12_Step]_vars

(* C12 witness: one read call consumed a single-segment message and then   *)
(* the two segments of another, and returned the two in that order.        *)
C12_Witness ==
    /\ pc = "idle" /\ last = "exit"
    /\ fed = SingleFrame \o FirstFrame \o LastFrame
    /\ Len(frames_received) = 2
    /\ frames_received[1] = SingleMessage
    /\ frames_received[2].frame_data = <<177, 179>>
    /\ emitted = frames_received

(* The ciphertext a first segment carries behind its ciphering header, and *)
(* the payloads of a run of frames, one behind the other.                  *)
Trailing(f) ==
    LET d == SubSeq(f, 10, f[2] + 4)
    IN SubSeq(d, (IF d[11] = 130 THEN 13 ELSE 11) + 6, Len(d))

RECURSIVE Payloads(_)
Payloads(fs) ==
    IF fs = <<>> THEN <<>>
    ELSE SubSeq(fs[1], 10, fs[1][2] + 4) \o Payloads(Tail(fs))

(* C18: no emitted message mixes two logical messages.  Of the frames      *)
(* consumed from the one that opened the message to the one that closed    *)
(* it, none but the first has CI low nibble 0, and the ciphertext of the   *)
(* message is the opener's ciphertext followed by the payloads of all the  *)
(* others.                                                                 *)
C18_NoMixing ==
    (Stepped /\ StepOut # <<>>) =>
        /\ segments # <<>> /\ segments[1][7] % 16 = 0
        /\ \A i \in 2..Len(segments) : segments[i][7] % 16 # 0
        /\ StepOut[1].frame_data = Trailing(segments[1]) \o Payloads(Tail(segments))

(* C19: every iteration of the loop in read breaks or removes bytes from   *)
(* the front of the buffer: the L+6 >= 6 bytes of a parsed or              *)
(* checksum-failed frame, at least 1 byte on a resynchronisation.  So the  *)
(* iterations of a call never outnumber the bytes the buffer held when the *)
(* call reached the loop.                                                  *)
C19_Progress ==
    /\ last # "raise"
    /\ last \in {"frame", "checksum"} =>
          /\ Len(prev.buffer) - Len(buffer) = prev.buffer[2] + 6
          /\ Len(prev.buffer) - Len(buffer) >= 6
    /\ last = "resync" => Len(prev.buffer) - Len(buffer) >= 1
    /\ last = "break" => pc = "idle"
    /\ iterations <= entry_size
    /\ pc = "loop" => iterations + Len(buffer) <= entry_size

(* C19: every read call terminates, and does so within the bound above.    *)
C19_Termination ==
    /\ []C19_Progress
    /\ (pc = "loop") ~> (pc = "idle")

(* C19 witness: a call that went through several iterations, each of the   *)
(* three kinds that remove bytes among them, has returned.                 *)
C19_Witness ==
    /\ pc = "idle" /\ last = "exit"
    /\ iterations >= 3
    /\ iterations < entry_size
    /\ buffer = <<>>

(* C16: a notification body whose field count N differs from the summed   *)
(* weights of its parsed list items (simple element 2, structured element  *)
(* 1) is rejected, and a body that is accepted never carries a list whose  *)
(* weights do not sum to N.                                                *)
C16_FieldCount ==
    LET bad == {i \in 1..Len(apdu.items) : apdu.items[i] = "other"}
        n == IF bad = {} THEN Len(apdu.items)
             ELSE (CHOOSE i \in bad : \A j \in bad : i <= j) - 1
        weights == [i \in 1..n |-> IF apdu.items[i] = "simple" THEN 2 ELSE 1]
    IN decoded # NotParsed =>
        /\ apdu.fields # SumSeq(weights) => decoded.exc \in {"CheckError", "ConstError"}
        /\ decoded.exc = "none" =>
              /\ Len(decoded.list_items) = n
              /\ \A i \in 1..n : decoded.list_items[i].shape = apdu.items[i]
              /\ SumSeq(weights) = decoded.fields
              /\ decoded.fields = apdu.fields
        /\ (apdu.tag = "structure" /\ apdu.fields = SumSeq(weights)) => decoded.exc = "none"

(* C16 witness: a body of two simple elements and one structured element   *)
(* that declares 4 fields where the weights sum to 5 has been rejected by  *)
(* the length check.                                                       *)
C16_Witness ==
    /\ apdu.tag = "structure" /\ apdu.fields = 4
    /\ apdu.items = <<"simple", "struct", "simple">>
    /\ decoded.exc = "CheckError"

(* C17: the task never ends on a frame: every frame taken from the queue   *)
(* is handled, in queue order, whatever the handling of the frames before  *)
(* it did.                                                                 *)
C17_Safe ==
    /\ task_pc # "dead"
    /\ supplied = handled \o current \o queue

(* C17: the above in every state, and every frame put into the queue is    *)
(* handled in the end.                                                     *)
C17_KeepsProcessing ==
    /\ []C17_Safe
    /\ \A n \in 1..MaxFrames : (Len(supplied) >= n) ~> (Len(handled) >= n)

(* C17 witness: after a frame the decoder raised on and a frame whose      *)
(* handling raised, a third frame has been handled.                        *)
C17_Witness ==
    /\ handled = <<"raises", "decoded", "undecoded">>
    /\ log = <<"DecodeError", "UnboundLocalError", "Could not decode frame content">>
    /\ task_pc = "get"

====
